---- MODULE Spec2Model ----
(***************************************************************************)
(* The grade form of src/logic.py (class Logic) as a state machine.        *)
(*                                                                         *)
(* The state is the contents of the widgets the handlers read and write    *)
(* (the three text inputs, the four score inputs and their visibility,     *)
(* the message label, the results table), the file grades.csv, the pending *)
(* one-shot timers and whether the process is still alive.  Every slot     *)
(* connected in connect_buttons is one action, and a slot's action holds   *)
(* everything the slot runs, the textChanged slots its own clear() calls   *)
(* trigger included.                                                       *)
(*                                                                         *)
(* Text is a sequence of one-character strings, so that int(), str(), the  *)
(* .2f format and the CSV line are computed character by character.  The   *)
(* message label's text, which no handler parses, is a plain string.       *)
(* Keyboard focus (setFocus, line 296) is read by no handler and is left   *)
(* out.                                                                    *)
(***************************************************************************)
EXTENDS Integers, Sequences, FiniteSets, TLC

VARIABLES
    first_name,   \* first_name_input.text()
    last_name,    \* last_name_input.text()
    attempts,     \* attempts_input.text()
    scores,       \* score_inputs[i].text(), i in 1..NumScoreInputs
    visible,      \* score_inputs[i] / score_labels[i] shown
    msg_text,     \* message_label.text()
    msg_style,    \* message_label.styleSheet()
    table,        \* table_widget_to_output
    csv_exists,   \* os.path.exists('grades.csv')
    csv_lines,    \* the lines of grades.csv, in file order
    timers,       \* pending QTimer.singleShot(5000, message_label.clear)
    pc,           \* "running", or "crashed" once a slot raised
    op,           \* the slot that ran last
    arg,          \* the field texts that slot read on entry
    ret,          \* what its validate_inputs() returned
    warning       \* the QMessageBox.warning text it showed, if any

vars == <<first_name, last_name, attempts, scores, visible, msg_text, msg_style,
          table, csv_exists, csv_lines, timers, pc, op, arg, ret, warning>>

-----------------------------------------------------------------------------
(* Bounds of the model. *)

\* grades.csv is followed until it holds this many lines.
MaxLines == 3

-----------------------------------------------------------------------------
(* Program constants. *)

NumScoreInputs == 4
MinAttempts == 1
MaxAttempts == 4
MinScore == 0
MaxScore == 100
ScoreMaxLength == 3
GradeA == 90
GradeB == 80
GradeC == 70
GradeD == 60
TableColumns == 6

csv_file == "grades.csv"
error_message_color == "color: red;"
success_message_color == "color: green;"

-----------------------------------------------------------------------------
(* Text. *)

Digit == <<"0", "1", "2", "3", "4", "5", "6", "7", "8", "9">>

IsDigit(c) == \E d \in 1..10 : Digit[d] = c

DigitValue(c) == (CHOOSE d \in 1..10 : Digit[d] = c) - 1

\* [a-zA-Z], as far as the names entered here spell
IsLetter(c) ==
    c \in {"a", "b", "c", "l", "x", "A", "B", "O", "N"}

RECURSIVE DigitsValue(_)
DigitsValue(t) ==
    IF t = <<>> THEN 0
    ELSE 10 * DigitsValue(SubSeq(t, 1, Len(t) - 1)) + DigitValue(t[Len(t)])

AllDigits(t) == t # <<>> /\ \A k \in 1..Len(t) : IsDigit(t[k])

\* int(text): an optional sign and at least one digit, else ValueError.
ParseInt(t) ==
    LET signed == t # <<>> /\ t[1] \in {"-", "+"}
        body == IF signed THEN Tail(t) ELSE t
    IN  IF AllDigits(body)
        THEN [ok |-> TRUE,
              val |-> IF signed /\ t[1] = "-" THEN 0 - DigitsValue(body)
                      ELSE DigitsValue(body)]
        ELSE [ok |-> FALSE, val |-> 0]

RECURSIVE NatToText(_)
NatToText(n) ==
    IF n < 10 THEN <<Digit[n + 1]>>
    ELSE NatToText(n \div 10) \o <<Digit[(n % 10) + 1]>>

\* str(n) of an int.
IntToText(n) == IF n < 0 THEN <<"-">> \o NatToText(0 - n) ELSE NatToText(n)

-----------------------------------------------------------------------------
(* set_validator: what the line edits let the keyboard enter.  A             *)
(* QRegularExpressionValidator accepts a text that matches the whole         *)
(* expression and tolerates one that may still grow into a match; for these  *)
(* three expressions the tolerated texts are the accepted ones and the       *)
(* empty text.                                                               *)

names_validator(t) ==
    \A k \in 1..Len(t) : IsLetter(t[k]) \/ t[k] \in {"'", "-"}

attempts_input_validator(t) ==
    \/ t = <<>>
    \/ /\ Len(t) = 1
       /\ IsDigit(t[1])
       /\ DigitValue(t[1]) \in MinAttempts..MaxAttempts

score_input_validator(t) ==
    /\ Len(t) <= ScoreMaxLength
    /\ \A k \in 1..Len(t) : IsDigit(t[k])

-----------------------------------------------------------------------------
(* The texts the model enters into the fields.  The keyboard actions keep   *)
(* those the validators let through; setText() is not validated.            *)

FirstNameKeys == {<<>>, <<"A", "l">>, <<"A", "1">>}

LastNameKeys == {<<>>, <<"O", "'", "B">>}

AttemptsKeys ==
    {<<>>, <<"0">>, <<"1">>, <<"2">>, <<"3">>, <<"4">>, <<"5">>, <<"x">>}

ScoreKeys(i) ==
    CASE i = 1 -> {<<>>, <<"1", "0", "0">>, <<"1", "0", "1">>, <<"a", "b", "c">>}
      [] i = 2 -> {<<>>, <<"0">>, <<"-", "1">>}
      [] i = 3 -> {<<>>, <<"5", "5">>, <<"x">>}
      [] OTHER -> {<<>>, <<"0", "7">>}

\* The score texts tried at the keyboard: the third and fourth inputs get none,
\* so that the interleavings of edits, saves, outputs and timers stay few.
TypedScoreKeys(i) == IF i <= 2 THEN ScoreKeys(i) ELSE {<<>>}

\* Scores around every grade threshold, for the handlers' arithmetic.
ThresholdScores == {0, 55, 59, 60, 69, 70, 79, 80, 89, 90, 100}

SummaryKeys(i) ==
    CASE i = 1 -> {<<>>} \cup {IntToText(n) : n \in ThresholdScores}
      [] i = 2 -> {<<>>, <<"0">>, <<"8", "9">>, <<"1", "0", "0">>}
      [] i = 3 -> {<<>>, <<"5", "5">>, <<"9", "0">>}
      [] OTHER -> {<<>>, <<"0", "7">>, <<"6", "0">>}

-----------------------------------------------------------------------------
(* validate_inputs. *)

Fields(fn, ln, att, sc) ==
    [first_name |-> fn, last_name |-> ln, attempts |-> att, scores |-> sc]

\* return None, None, None, None, after show_message(message, error colour)
NoneTuple(message) ==
    [kind |-> "none", value |-> <<>>, message |-> message, exc |-> ""]

\* return first_name, last_name, num_attempts, scores
Record(fn, ln, n, scs) ==
    [kind |-> "record", value |-> <<fn, ln, n, scs>>, message |-> "", exc |-> ""]

\* an exception leaves the function
Raise(exc) ==
    [kind |-> "raise", value |-> <<>>, message |-> "", exc |-> exc]

FirstNameMessage == "Please provide the first name"

LastNameMessage == "Please provide the last name"

AttemptsMessage == "Please enter the number of attempts"

\* i is the loop's index, from 0
ScoreMissingMessage(i) ==
    "Please enter a score for attempt " \o ToString(i + 1)

ScoreRangeMessage(i) ==
    "Invalid score for attempt " \o ToString(i + 1)
        \o ". Score must be between 0 and 100."

\* the attempt numbered by the loop index itself
ScoreFormatMessageFromZero(i) ==
    "Invalid score for attempt " \o ToString(i)
        \o ". Please enter a valid number."

ScoreFormatMessage(i) ==
    "Invalid score for attempt " \o ToString(i + 1)
        \o ". Please enter a valid number."

\* the upper limit forgotten
ScoreInRangeNoUpper(score) == MinScore <= score

ScoreInRange(score) == MinScore <= score /\ score <= MaxScore

\* for i in range(num_attempts), from index i on, acc the scores so far
RECURSIVE ScoreLoop(_, _, _, _)
ScoreLoop(f, num_attempts, i, acc) ==
    IF i >= num_attempts
    THEN Record(f.first_name, f.last_name, num_attempts, acc)
    ELSE IF i >= NumScoreInputs
    THEN Raise("IndexError")
    ELSE LET score_text == f.scores[i + 1]
             score == ParseInt(score_text)
         IN  IF score_text = <<>>
             THEN NoneTuple(ScoreMissingMessage(i))
             ELSE IF ~score.ok
             THEN NoneTuple(ScoreFormatMessage(i))
             ELSE IF ~ScoreInRange(score.val)
             THEN NoneTuple(ScoreRangeMessage(i))
             ELSE ScoreLoop(f, num_attempts, i + 1, Append(acc, score.val))

validate_inputs(f) ==
    IF f.first_name = <<>>
    THEN NoneTuple(FirstNameMessage)
    ELSE IF f.last_name = <<>>
    THEN NoneTuple(LastNameMessage)
    ELSE IF f.attempts = <<>>
    THEN NoneTuple(AttemptsMessage)
    ELSE LET num_attempts == ParseInt(f.attempts)
         IN  IF ~num_attempts.ok
             THEN Raise("ValueError")
             ELSE ScoreLoop(f, num_attempts.val, 0, <<>>)

-----------------------------------------------------------------------------
(* scores_summary. *)

RECURSIVE Sum(_)
Sum(scs) == IF scs = <<>> THEN 0 ELSE Head(scs) + Sum(Tail(scs))

Max(scs) == CHOOSE m \in {scs[k] : k \in 1..Len(scs)} :
                \A k \in 1..Len(scs) : scs[k] <= m

Min(scs) == CHOOSE m \in {scs[k] : k \in 1..Len(scs)} :
                \A k \in 1..Len(scs) : m <= scs[k]

\* the quotient cut after the second decimal
Format2fTruncated(total, count) ==
    LET hundredths == (100 * total) \div count
        cents == hundredths % 100
    IN  NatToText(hundredths \div 100)
            \o <<".", Digit[(cents \div 10) + 1], Digit[(cents % 10) + 1]>>

\* f"{total / count:.2f}" for total >= 0, count > 0: the quotient to the
\* nearest hundredth.  A tie would need a third decimal of exactly 5, which no
\* quotient by 1..4 has.
Format2f(total, count) ==
    LET hundredths == (2 * 100 * total + count) \div (2 * count)
        cents == hundredths % 100
    IN  NatToText(hundredths \div 100)
            \o <<".", Digit[(cents \div 10) + 1], Digit[(cents % 10) + 1]>>

scores_summary(f) ==
    LET v == validate_inputs(f)
        scs == v.value[4]
    IN  IF v.kind = "raise" THEN v
        ELSE IF v.kind = "none" THEN v
        ELSE IF Len(scs) = 0 THEN Raise("ZeroDivisionError")
        ELSE [kind |-> "summary",
              value |-> <<Format2f(Sum(scs), Len(scs)),
                          IntToText(Max(scs)), IntToText(Min(scs))>>,
              message |-> "", exc |-> ""]

-----------------------------------------------------------------------------
(* The CSV line csv.writer writes for a row (default dialect: fields joined  *)
(* by commas, a field quoted only when it holds a comma, a quote or a line   *)
(* break).  A line is kept without its terminator.                           *)

NeedsQuote(t) == \E k \in 1..Len(t) : t[k] \in {",", "\"", "\r", "\n"}

RECURSIVE DoubleQuotes(_)
DoubleQuotes(t) ==
    IF t = <<>> THEN <<>>
    ELSE (IF Head(t) = "\"" THEN <<"\"", "\"">> ELSE <<Head(t)>>)
             \o DoubleQuotes(Tail(t))

CsvField(t) ==
    IF NeedsQuote(t) THEN <<"\"">> \o DoubleQuotes(t) \o <<"\"">> ELSE t

RECURSIVE CsvLine(_)
CsvLine(row) ==
    IF Len(row) = 1 THEN CsvField(row[1])
    ELSE CsvField(Head(row)) \o <<",">> \o CsvLine(Tail(row))

headers ==
    << <<"F", "i", "r", "s", "t", " ", "N", "a", "m", "e">>,
       <<"L", "a", "s", "t", " ", "N", "a", "m", "e">>,
       <<"A", "t", "t", "e", "m", "p", "t", " ", "1">>,
       <<"A", "t", "t", "e", "m", "p", "t", " ", "2">>,
       <<"A", "t", "t", "e", "m", "p", "t", " ", "3">>,
       <<"A", "t", "t", "e", "m", "p", "t", " ", "4">>,
       <<"B", "e", "s", "t">>,
       <<"A", "v", "e", "r", "a", "g", "e">>,
       <<"L", "o", "w">> >>

NA == <<"N", "A">>

\* ['NA'] * count
RECURSIVE Repeat(_, _)
Repeat(x, count) == IF count <= 0 THEN <<>> ELSE <<x>> \o Repeat(x, count - 1)

\* the scores as writerow renders them: str() of each int
ScoreTexts(scs) == [k \in 1..Len(scs) |-> IntToText(scs[k])]

\* one NA too few
attempts_filled_short(scs, num_attempts) ==
    ScoreTexts(scs) \o Repeat(NA, MaxAttempts - num_attempts - 1)

\* attempts_filled = scores + ['NA'] * (4 - num_attempts)
attempts_filled(scs, num_attempts) ==
    ScoreTexts(scs) \o Repeat(NA, MaxAttempts - num_attempts)

\* row = [first_name, last_name] + attempts_filled + [best, avg, low];
\* v is validate_inputs' tuple and s is scores_summary's (avg, best, low)
CsvRow(v, s) ==
    <<v[1], v[2]>> \o attempts_filled(v[4], v[3]) \o <<s[2], s[1], s[3]>>

\* The file steps of save_to_csv.  fault names the call that raises, if any:
\* either open(), or the writerow() whose text reaches the file when the
\* with-block closes it.  A write either adds its whole line or nothing.
Faults == {"none", "open_w", "write_header", "open_a", "write_row"}

WriteCsv(exists, lines, row, fault) ==
    LET created == IF exists THEN lines ELSE <<>>
        headed == IF exists THEN lines ELSE <<CsvLine(headers)>>
    IN  IF ~exists /\ fault = "open_w"
        THEN [exists |-> FALSE, lines |-> lines, raised |-> TRUE]
        ELSE IF ~exists /\ fault = "write_header"
        THEN [exists |-> TRUE, lines |-> created, raised |-> TRUE]
        ELSE IF fault \in {"open_a", "write_row"}
        THEN [exists |-> TRUE, lines |-> headed, raised |-> TRUE]
        ELSE [exists |-> TRUE, lines |-> Append(headed, CsvLine(row)),
              raised |-> FALSE]

SaveErrorText(fault) == "Failed to save: " \o fault

-----------------------------------------------------------------------------
(* The results table. *)

NoItem == <<"None">>

EmptyTable == [columns |-> 0, labels |-> <<>>, rows |-> <<>>]

OutputLabels == <<"Attempt", "Score", "Grade", "Best", "Average", "Low">>

\* the thresholds compared with >
GradeAbove(score) ==
    IF score > GradeA THEN <<"A">>
    ELSE IF score > GradeB THEN <<"B">>
    ELSE IF score > GradeC THEN <<"C">>
    ELSE IF score > GradeD THEN <<"D">>
    ELSE <<"F">>

Grade(score) ==
    IF score >= GradeA THEN <<"A">>
    ELSE IF score >= GradeB THEN <<"B">>
    ELSE IF score >= GradeC THEN <<"C">>
    ELSE IF score >= GradeD THEN <<"D">>
    ELSE <<"F">>

grades(scs) == [k \in 1..Len(scs) |-> Grade(scs[k])]

AttemptText(i) == <<"A", "t", "t", "e", "m", "p", "t", " ">> \o IntToText(i + 1)

\* the rows output_current_data inserts: one per attempt, then the summary
OutputRows(v, s) ==
    [k \in 1..v[3] |->
        <<AttemptText(k - 1), IntToText(v[4][k]), grades(v[4])[k],
          NoItem, NoItem, NoItem>>]
    \o << <<NoItem, NoItem, NoItem, s[2], s[1], s[3]>> >>

OutputTable(v, s) ==
    [columns |-> TableColumns, labels |-> OutputLabels, rows |-> OutputRows(v, s)]

-----------------------------------------------------------------------------
(* The slots. *)

ScoreIndex == 1..NumScoreInputs

\* hide_fields: every score input cleared and hidden
HiddenScores == [i \in ScoreIndex |-> <<>>]

HiddenVisible == [i \in ScoreIndex |-> FALSE]

\* update_attempt_fields, on the attempts text att and the score texts sc
update_attempt_fields(att, sc) ==
    LET num_attempts == ParseInt(att)
    IN  IF num_attempts.ok /\ MinAttempts <= num_attempts.val
                           /\ num_attempts.val <= MaxAttempts
        THEN [scores |-> sc,
              visible |-> [i \in ScoreIndex |-> i <= num_attempts.val]]
        ELSE [scores |-> HiddenScores, visible |-> HiddenVisible]

show_message(text, color) ==
    /\ msg_text' = text
    /\ msg_style' = color

clear_message ==
    /\ msg_text' = ""
    /\ UNCHANGED msg_style

\* op, arg, ret and warning after a slot that does not call validate_inputs
Unread == Fields(<<>>, <<>>, <<>>, HiddenScores)

NoReturn == [kind |-> "idle", value |-> <<>>, message |-> "", exc |-> ""]

Slot ==
    /\ op' = ""
    /\ arg' = Unread
    /\ ret' = NoReturn
    /\ warning' = ""

\* the fields, the table widget and the message text as clear_form leaves them
ClearedForm ==
    /\ first_name' = <<>>
    /\ last_name' = <<>>
    /\ attempts' = <<>>
    /\ scores' = HiddenScores
    /\ visible' = HiddenVisible
    /\ table' = EmptyTable

\* an exception leaves the slot: PyQt6 aborts the process
Crash(exc) ==
    /\ pc' = exc
    /\ warning' = ""
    /\ UNCHANGED <<first_name, last_name, attempts, scores, visible, msg_text,
                   msg_style, table, csv_exists, csv_lines, timers>>

\* the score inputs reset as well
RejectedAndHidden(v) ==
    /\ show_message(v.message, error_message_color)
    /\ warning' = ""
    /\ scores' = HiddenScores
    /\ visible' = HiddenVisible
    /\ UNCHANGED <<first_name, last_name, attempts, table, csv_exists,
                   csv_lines, timers, pc>>

\* validate_inputs returned the None tuple v: the slot returns
Rejected(v) ==
    /\ show_message(v.message, error_message_color)
    /\ warning' = ""
    /\ UNCHANGED <<first_name, last_name, attempts, scores, visible, table,
                   csv_exists, csv_lines, timers, pc>>

\* clear_form called ahead of the try block
ClearAndWrite(v, s, fault) ==
    LET w == WriteCsv(csv_exists, csv_lines, CsvRow(v, s), fault)
    IN  /\ Len(w.lines) <= MaxLines
        /\ csv_exists' = w.exists
        /\ csv_lines' = w.lines
        /\ ClearedForm
        /\ UNCHANGED pc
        /\ IF w.raised
           THEN /\ warning' = SaveErrorText(fault)
                /\ clear_message
                /\ UNCHANGED timers
           ELSE /\ show_message("Data saved to " \o csv_file \o "!",
                                success_message_color)
                /\ timers' = timers + 1
                /\ warning' = ""

\* the try block of save_to_csv, for the row of v and s
WriteAndClear(v, s, fault) ==
    LET w == WriteCsv(csv_exists, csv_lines, CsvRow(v, s), fault)
    IN  /\ Len(w.lines) <= MaxLines
        /\ csv_exists' = w.exists
        /\ csv_lines' = w.lines
        /\ IF w.raised
           THEN /\ warning' = SaveErrorText(fault)
                /\ UNCHANGED <<first_name, last_name, attempts, scores, visible,
                               msg_text, msg_style, table, timers, pc>>
           ELSE /\ ClearedForm
                /\ show_message("Data saved to " \o csv_file \o "!",
                                success_message_color)
                /\ timers' = timers + 1
                /\ warning' = ""
                /\ UNCHANGED pc

save_to_csv ==
    /\ pc = "running"
    /\ \E fault \in Faults :
        LET f == Fields(first_name, last_name, attempts, scores)
            v == validate_inputs(f)
            s == scores_summary(f)
        IN  /\ op' = "save_to_csv"
            /\ arg' = f
            /\ ret' = v
            /\ IF v.kind = "raise" THEN Crash(v.exc)
               ELSE IF v.kind = "none" THEN Rejected(v)
               ELSE IF s.kind = "raise" THEN Crash(s.exc)
               ELSE WriteAndClear(v.value, s.value, fault)

output_current_data ==
    /\ pc = "running"
    /\ LET f == Fields(first_name, last_name, attempts, scores)
           v == validate_inputs(f)
           s == scores_summary(f)
       IN  /\ op' = "output_current_data"
           /\ arg' = f
           /\ ret' = v
           /\ IF v.kind = "raise" THEN Crash(v.exc)
              ELSE IF v.kind = "none" THEN Rejected(v)
              ELSE IF s.kind = "raise" THEN Crash(s.exc)
              ELSE /\ table' = OutputTable(v.value, s.value)
                   /\ warning' = ""
                   /\ UNCHANGED <<first_name, last_name, attempts, scores,
                                  visible, msg_text, msg_style, csv_exists,
                                  csv_lines, timers, pc>>

clear_form ==
    /\ pc = "running"
    /\ Slot
    /\ ClearedForm
    /\ clear_message
    /\ UNCHANGED <<csv_exists, csv_lines, timers, pc>>

\* first_name_input.textChanged, by the keyboard
EditFirstName ==
    /\ pc = "running"
    /\ \E t \in FirstNameKeys :
        /\ names_validator(t)
        /\ t # first_name
        /\ first_name' = t
    /\ Slot
    /\ clear_message
    /\ UNCHANGED <<last_name, attempts, scores, visible, table, csv_exists,
                   csv_lines, timers, pc>>

EditLastName ==
    /\ pc = "running"
    /\ \E t \in LastNameKeys :
        /\ names_validator(t)
        /\ t # last_name
        /\ last_name' = t
    /\ Slot
    /\ clear_message
    /\ UNCHANGED <<first_name, attempts, scores, visible, table, csv_exists,
                   csv_lines, timers, pc>>

\* attempts_input.textChanged: update_attempt_fields, then clear_message
EditAttempts ==
    /\ pc = "running"
    /\ \E t \in AttemptsKeys :
        /\ attempts_input_validator(t)
        /\ t # attempts
        /\ attempts' = t
        /\ scores' = update_attempt_fields(t, scores).scores
        /\ visible' = update_attempt_fields(t, scores).visible
    /\ Slot
    /\ clear_message
    /\ UNCHANGED <<first_name, last_name, table, csv_exists, csv_lines, timers,
                   pc>>

\* score_inputs[i].textChanged; only a shown input takes keys
EditScore ==
    /\ pc = "running"
    /\ \E i \in ScoreIndex : \E t \in TypedScoreKeys(i) :
        /\ visible[i]
        /\ score_input_validator(t)
        /\ t # scores[i]
        /\ scores' = [scores EXCEPT ![i] = t]
    /\ Slot
    /\ clear_message
    /\ UNCHANGED <<first_name, last_name, attempts, visible, table, csv_exists,
                   csv_lines, timers, pc>>

\* a timer started by save_to_csv fires: message_label.clear
TimerFires ==
    /\ pc = "running"
    /\ timers > 0
    /\ timers' = timers - 1
    /\ Slot
    /\ clear_message
    /\ UNCHANGED <<first_name, last_name, attempts, scores, visible, table,
                   csv_exists, csv_lines, pc>>

-----------------------------------------------------------------------------
(* Specifications. *)

\* __init__ with the fields holding fn, ln, att, sc; setupUi is taken to
\* leave the message label and the table empty and grades.csv is absent
Constructed(fn, ln, att, sc) ==
    /\ first_name = fn
    /\ last_name = ln
    /\ attempts = att
    /\ scores = sc
    /\ visible = update_attempt_fields(att, sc).visible
    /\ msg_text = ""
    /\ msg_style = ""
    /\ table = EmptyTable
    /\ csv_exists = FALSE
    /\ csv_lines = <<>>
    /\ timers = 0
    /\ pc = "running"
    /\ op = "__init__"
    /\ arg = Unread
    /\ ret = NoReturn
    /\ warning = ""

\* The application as started and driven by keyboard and mouse.
Init == Constructed(<<>>, <<>>, <<>>, HiddenScores)

Buttons == save_to_csv \/ output_current_data \/ clear_form \/ TimerFires

Next ==
    \/ EditFirstName
    \/ EditLastName
    \/ EditAttempts
    \/ EditScore
    \/ Buttons

Spec == Init /\ [][Next]_vars

\* The handlers on field texts put there by setText(), which no validator
\* screens.
InitRaw ==
    \E fn \in FirstNameKeys, ln \in LastNameKeys, att \in AttemptsKeys :
        \E s1 \in ScoreKeys(1), s2 \in ScoreKeys(2), s3 \in ScoreKeys(3),
           s4 \in ScoreKeys(4) :
            Constructed(fn, ln, att, <<s1, s2, s3, s4>>)

SpecRaw == InitRaw /\ [][Buttons]_vars

\* The handlers on forms the keyboard can leave: the names filled in, an
\* attempt count, and score texts in shown and in hidden inputs.
InitFilled ==
    \E att \in {t \in AttemptsKeys : attempts_input_validator(t) /\ t # <<>>} :
        \E s1 \in SummaryKeys(1), s2 \in SummaryKeys(2), s3 \in SummaryKeys(3),
           s4 \in SummaryKeys(4) :
            /\ \A t \in {s1, s2, s3, s4} : score_input_validator(t)
            /\ Constructed(<<"A", "l">>, <<"O", "'", "B">>, att,
                           <<s1, s2, s3, s4>>)

SpecFilled == InitFilled /\ [][Buttons]_vars

-----------------------------------------------------------------------------
(* What the properties read off a state. *)

Handlers == {"save_to_csv", "output_current_data"}

\* the fields of a CSV line that holds no quoted field
RECURSIVE SplitFrom(_, _, _)
SplitFrom(line, k, field) ==
    IF k > Len(line) THEN <<field>>
    ELSE IF line[k] = "," THEN <<field>> \o SplitFrom(line, k + 1, <<>>)
    ELSE SplitFrom(line, k + 1, Append(field, line[k]))

Columns(line) == SplitFrom(line, 1, <<>>)

HeaderLine ==
    <<"F", "i", "r", "s", "t", " ", "N", "a", "m", "e", ",",
      "L", "a", "s", "t", " ", "N", "a", "m", "e", ",",
      "A", "t", "t", "e", "m", "p", "t", " ", "1", ",",
      "A", "t", "t", "e", "m", "p", "t", " ", "2", ",",
      "A", "t", "t", "e", "m", "p", "t", " ", "3", ",",
      "A", "t", "t", "e", "m", "p", "t", " ", "4", ",",
      "B", "e", "s", "t", ",", "A", "v", "e", "r", "a", "g", "e", ",",
      "L", "o", "w">>

DataLines == {k \in 1..Len(csv_lines) : csv_lines[k] # HeaderLine}

\* a text that reads as a whole number min..max
IsNumberIn(t, min, max) ==
    AllDigits(t) /\ min <= DigitsValue(t) /\ DigitsValue(t) <= max

\* every check of the validator passes on the field texts f
FormValid(f) ==
    /\ f.first_name # <<>>
    /\ f.last_name # <<>>
    /\ IsNumberIn(f.attempts, 1, 4)
    /\ \A i \in 1..4 :
        i <= DigitsValue(f.attempts) => IsNumberIn(f.scores[i], 0, 100)

CurrentFields == Fields(first_name, last_name, attempts, scores)

\* a data row of a valid record: two names, n scores, NA for the rest, and
\* three more columns
RowOfValidRecord(c) ==
    /\ Len(c) = 9
    /\ c[1] # <<>>
    /\ c[2] # <<>>
    /\ \E n \in 1..4 :
        /\ \A i \in 1..n : IsNumberIn(c[2 + i], 0, 100)
        /\ \A i \in (n + 1)..4 : c[2 + i] = <<"N", "A">>

-----------------------------------------------------------------------------
(* C1.  Only an action whose field contents pass every validation check     *)
(* changes grades.csv or renders the results table, so every data row of    *)
(* the file has two non-empty names, an attempt count n in 1..4 and exactly *)
(* n scores in 0..100; a save with an empty first name appends nothing.     *)

C1_RowsAreValid ==
    \A k \in DataLines : RowOfValidRecord(Columns(csv_lines[k]))

C1_WrittenOrShownOnlyIfValid ==
    \/ /\ csv_exists' = csv_exists
       /\ csv_lines' = csv_lines
       /\ table' = table \/ table' = EmptyTable
    \/ FormValid(CurrentFields)

C1_OnlyValidRecords ==
    /\ []C1_RowsAreValid
    /\ [][C1_WrittenOrShownOnlyIfValid]_vars

\* a save with an empty first name, on a file that holds rows, and the file
\* still holds only valid rows
C1_Witness ==
    /\ op = "save_to_csv"
    /\ arg.first_name = <<>>
    /\ msg_text = "Please provide the first name"
    /\ DataLines # {}

-----------------------------------------------------------------------------
(* C2.  validate_inputs reports one error, that of the first check to fail  *)
(* in the order: first name empty, last name empty, attempt count empty,    *)
(* then for each attempt i = 1..n in turn: score i empty, score i not an    *)
(* integer, score i outside 0..100.  The message names attempt i, and the   *)
(* result is the None tuple.  When no check fails a record is returned.     *)

\* the attempts whose score input the checks reach: 1..n, as far as there
\* are inputs
CheckedAttempts(f) ==
    IF AllDigits(f.attempts)
    THEN {i \in 1..4 : i <= DigitsValue(f.attempts)}
    ELSE {}

\* the j-th check of the order, with whether it fails on f and its message
Check(f, j) ==
    LET i == ((j - 4) \div 3) + 1
        text == f.scores[i]
        number == ParseInt(text)
    IN  CASE j = 1 -> [fails |-> f.first_name = <<>>,
                       message |-> "Please provide the first name"]
          [] j = 2 -> [fails |-> f.last_name = <<>>,
                       message |-> "Please provide the last name"]
          [] j = 3 -> [fails |-> f.attempts = <<>>,
                       message |-> "Please enter the number of attempts"]
          [] j > 3 /\ j % 3 = 1 ->
                 [fails |-> i \in CheckedAttempts(f) /\ text = <<>>,
                  message |-> "Please enter a score for attempt "
                                  \o ToString(i)]
          [] j > 3 /\ j % 3 = 2 ->
                 [fails |-> i \in CheckedAttempts(f) /\ ~number.ok,
                  message |-> "Invalid score for attempt " \o ToString(i)
                                  \o ". Please enter a valid number."]
          [] OTHER ->
                 [fails |-> /\ i \in CheckedAttempts(f)
                            /\ ~(number.ok /\ number.val \in 0..100),
                  message |-> "Invalid score for attempt " \o ToString(i)
                                  \o ". Score must be between 0 and 100."]

Failing(f) == {j \in 1..15 : Check(f, j).fails}

FirstFailing(f) == CHOOSE j \in Failing(f) : \A k \in Failing(f) : j <= k

C2_FirstFailingCheckReported ==
    (op \in Handlers /\ pc = "running") =>
        IF Failing(arg) = {}
        THEN ret.kind = "record"
        ELSE /\ ret.kind = "none"
             /\ msg_text = Check(arg, FirstFailing(arg)).message
             /\ msg_style = "color: red;"

\* the third score is not a number and the fourth, further on, is missing:
\* the message is the format error of attempt 3
C2_Witness ==
    /\ op \in Handlers
    /\ arg.attempts = <<"4">>
    /\ arg.scores[3] = <<"x">>
    /\ arg.scores[4] = <<>>
    /\ ret.kind = "none"
    /\ msg_text = "Invalid score for attempt 3. Please enter a valid number."

-----------------------------------------------------------------------------
(* C3.  A save or output with the names filled in and an attempt count      *)
(* outside 1..4 ends with an error message and no record, and the slot      *)
(* returns: it raises nothing.                                              *)

C3_AttemptsOutOfRangeRecovered ==
    ( /\ op \in Handlers
      /\ arg.first_name # <<>>
      /\ arg.last_name # <<>>
      /\ ParseInt(arg.attempts).ok
      /\ ParseInt(arg.attempts).val \notin 1..4 )
    => /\ pc = "running"
       /\ ret.kind = "none"
       /\ msg_text # ""
       /\ msg_style = "color: red;"

-----------------------------------------------------------------------------
(* C4.  From an absent file, once a save has succeeded grades.csv is the    *)
(* header line, once and first, followed by the data rows.                  *)

C4_HeaderFirstThenRows ==
    DataLines # {} =>
        /\ csv_lines[1] = HeaderLine
        /\ DataLines = 2..Len(csv_lines)

-----------------------------------------------------------------------------
(* C5.  A save that meets an I/O error shows a warning and raises nothing;  *)
(* it leaves the lines of grades.csv as they were (at most the header of a  *)
(* file it created is added, never part of a row), the form, the table, the *)
(* message and the timers untouched, and the same form can be saved again.  *)

SuccessMessage == "Data saved to grades.csv!"

C5_SaveErrorStep ==
    warning' # "" =>
        /\ \/ csv_lines' = csv_lines
           \/ ~csv_exists /\ csv_lines' = <<HeaderLine>>
        /\ UNCHANGED <<first_name, last_name, attempts, scores, visible, table,
                       msg_text, msg_style, timers>>
        /\ pc' = "running"
        /\ FormValid(CurrentFields)

\* a save of a valid form that meets no I/O error appends its row, whatever
\* failed before
C5_SaveAgainStep ==
    (op' = "save_to_csv" /\ FormValid(CurrentFields) /\ warning' = "") =>
        /\ Len(csv_lines') = Len(csv_lines) + (IF csv_lines = <<>> /\ ~csv_exists THEN 2 ELSE 1)
        /\ SubSeq(csv_lines', 1, Len(csv_lines)) = csv_lines
        /\ msg_text' = SuccessMessage
        /\ pc' = "running"

-----------------------------------------------------------------------------
(* C6.  A save or output whose validation fails changes the message label   *)
(* and nothing else: the field texts, the visibility of the score inputs,   *)
(* the table and the file stay as they were.                                *)

C6_RejectedStep ==
    (op' \in Handlers /\ ret'.kind = "none") =>
        /\ UNCHANGED <<first_name, last_name, attempts, scores, visible, table,
                       csv_exists, csv_lines, timers, pc>>
        /\ msg_text' = ret'.message
        /\ msg_style' = "color: red;"

-----------------------------------------------------------------------------
(* C10.  The timer a save starts clears that save's success message only:   *)
(* when it fires over another message, that message stays.                  *)

C10_TimerStep ==
    (timers' = timers - 1 /\ msg_text \notin {"", SuccessMessage}) =>
        msg_text' = msg_text

C10_TimerClearsOnlyItsMessage == [][C10_TimerStep]_vars

-----------------------------------------------------------------------------
(* What a handler that went through answered, read off the widgets.         *)

\* the output handler rendered the table
Rendered ==
    op = "output_current_data" /\ ret.kind = "record" /\ pc = "running"

\* the save handler appended its row
Saved ==
    /\ op = "save_to_csv"
    /\ ret.kind = "record"
    /\ pc = "running"
    /\ warning = ""

\* the attempt count and the scores the handler read, as numbers
EnteredCount == DigitsValue(arg.attempts)

EnteredScore(i) == DigitsValue(arg.scores[i])

EnteredTotal ==
    LET RECURSIVE Upto(_)
        Upto(i) == IF i = 0 THEN 0 ELSE EnteredScore(i) + Upto(i - 1)
    IN  Upto(EnteredCount)

SavedRow == Columns(csv_lines[Len(csv_lines)])

SummaryRow == table.rows[Len(table.rows)]

\* the text of a whole number, without sign or leading zeros
IsPlainNumber(t) == AllDigits(t) /\ (Len(t) = 1 \/ t[1] # "0")

\* t reads d.dd and is the quotient total / count to the nearest hundredth
IsQuotientTo2Decimals(t, total, count) ==
    /\ Len(t) >= 4
    /\ t[Len(t) - 2] = "."
    /\ IsPlainNumber(SubSeq(t, 1, Len(t) - 3))
    /\ AllDigits(SubSeq(t, Len(t) - 1, Len(t)))
    /\ LET hundredths == 100 * DigitsValue(SubSeq(t, 1, Len(t) - 3))
                             + DigitsValue(SubSeq(t, Len(t) - 1, Len(t)))
           error == hundredths * count - 100 * total
       IN  2 * error <= count /\ 2 * error >= 0 - count

IsBest(t) ==
    /\ IsPlainNumber(t)
    /\ \E i \in 1..EnteredCount : DigitsValue(t) = EnteredScore(i)
    /\ \A i \in 1..EnteredCount : DigitsValue(t) >= EnteredScore(i)

IsLow(t) ==
    /\ IsPlainNumber(t)
    /\ \E i \in 1..EnteredCount : DigitsValue(t) = EnteredScore(i)
    /\ \A i \in 1..EnteredCount : DigitsValue(t) <= EnteredScore(i)

-----------------------------------------------------------------------------
(* C7.  For n in 1..4 scores in 0..100 the summary is the average sum/n     *)
(* to two decimals, the maximum and the minimum, as text, both in the       *)
(* table and in the saved row; 100, 0, 55 give 51.67, 100 and 0.            *)

C7_Summary(average, best, low) ==
    /\ IsQuotientTo2Decimals(average, EnteredTotal, EnteredCount)
    /\ IsBest(best)
    /\ IsLow(low)
    /\ ( /\ EnteredCount = 3
         /\ EnteredScore(1) = 100 /\ EnteredScore(2) = 0 /\ EnteredScore(3) = 55 )
       => /\ average = <<"5", "1", ".", "6", "7">>
          /\ best = <<"1", "0", "0">>
          /\ low = <<"0">>

C7_SummaryIsAverageBestLow ==
    /\ Rendered => C7_Summary(SummaryRow[5], SummaryRow[4], SummaryRow[6])
    /\ Saved => C7_Summary(SavedRow[8], SavedRow[7], SavedRow[9])

\* the scores 100, 0, 55 rendered
C7_Witness ==
    /\ Rendered
    /\ EnteredCount = 3
    /\ EnteredScore(1) = 100 /\ EnteredScore(2) = 0 /\ EnteredScore(3) = 55
    /\ SummaryRow[5] = <<"5", "1", ".", "6", "7">>

-----------------------------------------------------------------------------
(* C8.  The table output_current_data renders has one row per attempt, in   *)
(* attempt order, with the score and its grade: A from 90, B from 80 to 89, *)
(* C from 70 to 79, D from 60 to 69, F below 60.                            *)

GradeLetter(score) ==
    CASE score >= 90 -> "A"
      [] score >= 80 /\ score < 90 -> "B"
      [] score >= 70 /\ score < 80 -> "C"
      [] score >= 60 /\ score < 70 -> "D"
      [] score < 60 -> "F"

C8_GradePerAttempt ==
    Rendered =>
        /\ Len(table.rows) = EnteredCount + 1
        /\ \A i \in 1..EnteredCount :
            /\ table.rows[i][1]
                   = <<"A", "t", "t", "e", "m", "p", "t", " ", Digit[i + 1]>>
            /\ IsPlainNumber(table.rows[i][2])
            /\ DigitsValue(table.rows[i][2]) = EnteredScore(i)
            /\ table.rows[i][3] = <<GradeLetter(EnteredScore(i))>>

\* four attempts rendered with a score on a threshold and one just below
C8_Witness ==
    /\ Rendered
    /\ EnteredCount = 4
    /\ EnteredScore(1) = 90
    /\ EnteredScore(2) = 89
    /\ table.rows[1][3] = <<"A">>
    /\ table.rows[2][3] = <<"B">>

-----------------------------------------------------------------------------
(* C9.  A saved row has 9 columns in the header's order: the two names,     *)
(* the n entered scores in attempt columns 1..n, NA in attempt columns      *)
(* n+1..4 whatever the inputs beyond n hold, then best, average and low.    *)

C9_RowOfNineColumns ==
    Saved =>
        /\ Len(SavedRow) = 9
        /\ SavedRow[1] = arg.first_name
        /\ SavedRow[2] = arg.last_name
        /\ \A i \in 1..EnteredCount :
            /\ IsPlainNumber(SavedRow[2 + i])
            /\ DigitsValue(SavedRow[2 + i]) = EnteredScore(i)
        /\ \A i \in (EnteredCount + 1)..4 : SavedRow[2 + i] = <<"N", "A">>
        /\ IsBest(SavedRow[7])
        /\ IsQuotientTo2Decimals(SavedRow[8], EnteredTotal, EnteredCount)
        /\ IsLow(SavedRow[9])

\* two attempts saved while the third and fourth inputs still held text
C9_Witness ==
    /\ Saved
    /\ EnteredCount = 2
    /\ arg.scores[3] # <<>>
    /\ arg.scores[4] # <<>>
    /\ SavedRow[5] = <<"N", "A">>
    /\ SavedRow[6] = <<"N", "A">>

====
